---------------------------- MODULE Spec2Model ----------------------------
(***************************************************************************)
(* Model of webhook-client/app.py: a FastAPI application with two routes,  *)
(* POST /test/ (create_item) and GET / (read_root).                        *)
(*                                                                         *)
(* A request body is a sequence of lexical items (tokens); a token stands  *)
(* for the bytes of one JSON lexeme, for one whitespace run, for a UTF-8   *)
(* byte order mark or for a byte that is not valid UTF-8.  Python values   *)
(* are tagged records [t |-> type, v |-> contents]; a str is the sequence  *)
(* of its characters, a list the sequence of its elements and a dict the   *)
(* sequence of its <<key, value>> pairs in insertion order.                *)
(***************************************************************************)
EXTENDS Integers, Sequences, FiniteSets, TLC

(***************************************************************************)
(* Bounds of the model.                                                    *)
(***************************************************************************)
\* Number of requests the server handles, possibly concurrently.
NumReqs == 2
\* Longest userSshKey string among the generated request bodies.
MaxKeyLen == 12

\* The slice bound of json_body['userSshKey'][:10] (app.py line 34).
SliceLen == 10

(***************************************************************************)
(* Python values.                                                          *)
(***************************************************************************)
JStr(chars)  == [t |-> "str",   v |-> chars]
JNum(n)      == [t |-> "int",   v |-> n]
JBool(b)     == [t |-> "bool",  v |-> b]
JNone        == [t |-> "None",  v |-> 0]
JNaN         == [t |-> "float", v |-> "nan"]
JList(elems) == [t |-> "list",  v |-> elems]
JDict(pairs) == [t |-> "dict",  v |-> pairs]
\* No value: a local variable not yet assigned, a response without payload.
Absent       == [t |-> "absent", v |-> 0]

\* The str 'userSshKey'.
KeyName == <<"u", "s", "e", "r", "S", "s", "h", "K", "e", "y">>

(***************************************************************************)
(* Tokens of a request body.                                               *)
(***************************************************************************)
Tok(k)     == [tok |-> k, val |-> <<>>]
TStr(cs)   == [tok |-> "str", val |-> cs]
TNum(n)    == [tok |-> "num", val |-> n]
LBrace     == Tok("{")
RBrace     == Tok("}")
LBrack     == Tok("[")
RBrack     == Tok("]")
Colon      == Tok(":")
Comma      == Tok(",")
TTrue      == Tok("true")
TNull      == Tok("null")
TNaN       == Tok("NaN")
TWs        == Tok("ws")
\* A bare word such as invalid in {invalid}: no JSON lexeme.
TWord      == Tok("word")
\* The UTF-8 encoding of U+FEFF.
TBom       == Tok("bom")
\* A byte that is no part of any valid UTF-8 sequence (0xff).
TBadByte   == Tok("0xff")

(***************************************************************************)
(* bytes.decode('utf-8'): fails on the first invalid byte, and otherwise   *)
(* yields the text, in which the byte order mark is the character U+FEFF.  *)
(***************************************************************************)
DecodeChar(tk) == IF tk.tok = "bom" THEN Tok("U+FEFF") ELSE tk

Decode(bytes) ==
    IF \E i \in 1..Len(bytes) : bytes[i].tok = "0xff"
    THEN [ok |-> FALSE, val |-> <<>>,
          err |-> <<"'utf-8' codec can't decode byte 0xff: invalid start byte">>]
    ELSE [ok |-> TRUE, val |-> [i \in 1..Len(bytes) |-> DecodeChar(bytes[i])],
          err |-> <<>>]

(***************************************************************************)
(* json.loads: the decoder of Python's json module.                        *)
(***************************************************************************)
ParseFail(e)  == [ok |-> FALSE, val |-> Absent, next |-> 0, err |-> <<e>>]
ParseOk(x, n) == [ok |-> TRUE, val |-> x, next |-> n, err |-> <<>>]

RECURSIVE SkipWs(_, _)
SkipWs(s, i) ==
    IF i <= Len(s) /\ s[i].tok = "ws" THEN SkipWs(s, i + 1) ELSE i

\* dict(pairs): a repeated key keeps its first position and takes the last value.
RECURSIVE DictSet(_, _, _)
DictSet(pairs, k, x) ==
    IF pairs = <<>> THEN << <<k, x>> >>
    ELSE IF Head(pairs)[1] = k THEN << <<k, x>> >> \o Tail(pairs)
    ELSE <<Head(pairs)>> \o DictSet(Tail(pairs), k, x)

RECURSIVE ParseValue(_, _)
RECURSIVE ParseArray(_, _, _)
RECURSIVE ParseObject(_, _, _)

\* scan_once: the value that starts at position i.
ParseValue(s, i) ==
    IF i > Len(s) THEN ParseFail("Expecting value")
    ELSE LET tk == s[i] IN
         CASE tk.tok = "str"  -> ParseOk(JStr(tk.val), i + 1)
           [] tk.tok = "num"  -> ParseOk(JNum(tk.val), i + 1)
           [] tk.tok = "true" -> ParseOk(JBool(TRUE), i + 1)
           [] tk.tok = "null" -> ParseOk(JNone, i + 1)
           \* The decoder accepts the literal NaN, which is not JSON.
           [] tk.tok = "NaN"  -> ParseOk(JNaN, i + 1)
           [] tk.tok = "["    ->
                LET j == SkipWs(s, i + 1) IN
                IF j <= Len(s) /\ s[j].tok = "]"
                THEN ParseOk(JList(<<>>), j + 1)
                ELSE ParseArray(s, j, <<>>)
           [] tk.tok = "{"    ->
                LET j == SkipWs(s, i + 1) IN
                IF j <= Len(s) /\ s[j].tok = "}"
                THEN ParseOk(JDict(<<>>), j + 1)
                ELSE ParseObject(s, j, <<>>)
           [] OTHER -> ParseFail("Expecting value")

\* JSONArray: the elements from position i on, acc holding those already read.
ParseArray(s, i, acc) ==
    LET r == ParseValue(s, i) IN
    IF ~r.ok THEN r
    ELSE LET j == SkipWs(s, r.next) IN
         IF j > Len(s) THEN ParseFail("Expecting ',' delimiter")
         ELSE IF s[j].tok = "]" THEN ParseOk(JList(Append(acc, r.val)), j + 1)
         ELSE IF s[j].tok = ","
              THEN ParseArray(s, SkipWs(s, j + 1), Append(acc, r.val))
         ELSE ParseFail("Expecting ',' delimiter")

\* JSONObject: the members from position i on, acc holding those already read.
ParseObject(s, i, acc) ==
    IF i > Len(s) \/ s[i].tok # "str"
    THEN ParseFail("Expecting property name enclosed in double quotes")
    ELSE LET j == SkipWs(s, i + 1) IN
         IF j > Len(s) \/ s[j].tok # ":"
         THEN ParseFail("Expecting ':' delimiter")
         ELSE LET r == ParseValue(s, SkipWs(s, j + 1)) IN
              IF ~r.ok THEN r
              ELSE LET m    == SkipWs(s, r.next)
                       acc2 == DictSet(acc, s[i].val, r.val)
                   IN  IF m > Len(s) THEN ParseFail("Expecting ',' delimiter")
                       ELSE IF s[m].tok = "}" THEN ParseOk(JDict(acc2), m + 1)
                       ELSE IF s[m].tok = ","
                            THEN ParseObject(s, SkipWs(s, m + 1), acc2)
                       ELSE ParseFail("Expecting ',' delimiter")

\* json.loads(body_str).
Loads(s) ==
    IF Len(s) > 0 /\ s[1].tok = "U+FEFF"
    THEN ParseFail("Unexpected UTF-8 BOM (decode using utf-8-sig)")
    ELSE LET r == ParseValue(s, SkipWs(s, 1)) IN
         IF ~r.ok THEN r
         ELSE IF SkipWs(s, r.next) # Len(s) + 1 THEN ParseFail("Extra data")
         ELSE r

(***************************************************************************)
(* The Python operations of lines 30 to 36 on a parsed value.              *)
(***************************************************************************)
Raise(e)  == [ok |-> FALSE, val |-> Absent, err |-> e]
Result(x) == [ok |-> TRUE, val |-> x, err |-> <<>>]

\* type(x).__name__
TypeName(x) == IF x.t = "None" THEN "NoneType" ELSE x.t

\* Does the sequence sub occur in the sequence s as a contiguous run?
IsSubstring(sub, s) ==
    \E i \in 0..(Len(s) - Len(sub)) : SubSeq(s, i + 1, i + Len(sub)) = sub

\* Contains as it would be if the handler took the key for granted in every
\* object.
ContainsTakenForGranted(chars, c) ==
    CASE c.t = "dict" -> Result(TRUE)
      [] c.t = "list" -> Result(\E i \in 1..Len(c.v) : c.v[i] = JStr(chars))
      [] c.t = "str"  -> Result(IsSubstring(chars, c.v))
      [] OTHER -> Raise(<<"argument of type '", TypeName(c), "' is not iterable">>)

\* 'userSshKey' in c: key membership for a dict, element membership for a
\* list, substring test for a str, TypeError for anything else.
Contains(chars, c) ==
    CASE c.t = "dict" -> Result(\E i \in 1..Len(c.v) : c.v[i][1] = chars)
      [] c.t = "list" -> Result(\E i \in 1..Len(c.v) : c.v[i] = JStr(chars))
      [] c.t = "str"  -> Result(IsSubstring(chars, c.v))
      [] OTHER -> Raise(<<"argument of type '", TypeName(c), "' is not iterable">>)

\* c['userSshKey']
GetItem(c, chars) ==
    CASE c.t = "dict" ->
           IF \E i \in 1..Len(c.v) : c.v[i][1] = chars
           THEN Result(c.v[CHOOSE i \in 1..Len(c.v) : c.v[i][1] = chars][2])
           ELSE Raise(<<"'userSshKey'">>)
      [] c.t = "list" ->
           Raise(<<"list indices must be integers or slices, not str">>)
      [] c.t = "str"  -> Raise(<<"string indices must be integers, not 'str'">>)
      [] OTHER -> Raise(<<"'", TypeName(c), "' object is not subscriptable">>)

Min(a, b) == IF a < b THEN a ELSE b

\* Slice as it would be if the handler printed the value without slicing it.
SliceForgotten(x, n) ==
    CASE x.t = "str"  -> Result(x)
      [] x.t = "list" -> Result(x)
      [] x.t = "dict" -> Raise(<<"unhashable type: 'slice'">>)
      [] OTHER -> Raise(<<"'", TypeName(x), "' object is not subscriptable">>)

\* x[:n]
Slice(x, n) ==
    CASE x.t = "str"  -> Result(JStr(SubSeq(x.v, 1, Min(n, Len(x.v)))))
      [] x.t = "list" -> Result(JList(SubSeq(x.v, 1, Min(n, Len(x.v)))))
      [] x.t = "dict" -> Raise(<<"unhashable type: 'slice'">>)
      [] OTHER -> Raise(<<"'", TypeName(x), "' object is not subscriptable">>)

\* repr(x), as the sequence of the pieces of its text.
RECURSIVE Repr(_)
RECURSIVE ReprElems(_)
RECURSIVE ReprPairs(_)
Repr(x) ==
    CASE x.t = "str"   -> <<"'">> \o x.v \o <<"'">>
      [] x.t = "int"   -> <<ToString(x.v)>>
      [] x.t = "bool"  -> IF x.v THEN <<"True">> ELSE <<"False">>
      [] x.t = "None"  -> <<"None">>
      [] x.t = "float" -> <<x.v>>
      [] x.t = "list"  -> <<"[">> \o ReprElems(x.v) \o <<"]">>
      [] x.t = "dict"  -> <<"{">> \o ReprPairs(x.v) \o <<"}">>

ReprElems(elems) ==
    IF elems = <<>> THEN <<>>
    ELSE Repr(Head(elems))
         \o (IF Len(elems) > 1 THEN <<", ">> ELSE <<>>)
         \o ReprElems(Tail(elems))

ReprPairs(pairs) ==
    IF pairs = <<>> THEN <<>>
    ELSE Repr(JStr(Head(pairs)[1])) \o <<": ">> \o Repr(Head(pairs)[2])
         \o (IF Len(pairs) > 1 THEN <<", ">> ELSE <<>>)
         \o ReprPairs(Tail(pairs))

\* format(x, ''), what an f-string writes for {x}: a str as it is, anything
\* else as its repr.
Format(x) == IF x.t = "str" THEN x.v ELSE Repr(x)

\* The text of the lines the handler prints.
TestLine       == <<"test">>
DataLine(x)    == <<"Data received: ">> \o Format(x)
FoundLine(x)   == <<"userSshKey found: ">> \o Format(x) \o <<"...">>
MissingLine    == <<"Warning: userSshKey field is missing in the payload">>

\* Does x hold a float that is not a number, at any depth?
RECURSIVE HasNaN(_)
HasNaN(x) ==
    CASE x.t = "float" -> TRUE
      [] x.t = "list"  -> \E i \in 1..Len(x.v) : HasNaN(x.v[i])
      [] x.t = "dict"  -> \E i \in 1..Len(x.v) : HasNaN(x.v[i][2])
      [] OTHER -> FALSE

(***************************************************************************)
(* The request bodies the clients send.                                    *)
(***************************************************************************)
Alphabet == <<"a", "b", "c", "d", "e", "f", "g", "h", "i", "j", "k", "l", "m",
              "n", "o", "p", "q", "r", "s", "t", "u", "v", "w", "x", "y", "z">>

\* The key of n characters "abc...", and the one that differs from it in its
\* last character alone.
KeyStr(n)    == SubSeq(Alphabet, 1, n)
KeyStrAlt(n) == SubSeq(Alphabet, 1, n - 1) \o <<"#">>

KeyStrings ==
    {KeyStr(n) : n \in {0, SliceLen - 1, SliceLen, SliceLen + 1, MaxKeyLen}}
    \cup {KeyStrAlt(n) : n \in {SliceLen, SliceLen + 1, MaxKeyLen}}

Foo == <<"f", "o", "o">>
Bar == <<"b", "a", "r">>

\* {"userSshKey": x}, x given by its tokens.
KeyBody(x) == <<LBrace, TStr(KeyName), Colon>> \o x \o <<RBrace>>

\* Bodies that are JSON texts.
ObjectBodies ==
    { <<LBrace, RBrace>>,
      <<LBrace, TStr(Foo), Colon, TWs, TStr(Bar), RBrace>>,
      <<LBrace, TStr(Foo), Colon, TStr(Bar), Comma, TWs>>
          \o <<TStr(KeyName), Colon, TStr(KeyStr(MaxKeyLen)), RBrace>>,
      KeyBody(<<TNum(1)>>),
      KeyBody(<<TNull>>),
      KeyBody(<<LBrack, TNum(1), RBrack>>),
      KeyBody(<<LBrace, RBrace>>) }
    \cup {KeyBody(<<TStr(k)>>) : k \in KeyStrings}

ArrayBodies ==
    { <<LBrack, RBrack>>,
      <<LBrack, TNum(1), Comma, TTrue, RBrack>>,
      <<LBrack, TStr(KeyName), RBrack>> }

ScalarBodies ==
    { <<TNum(5)>>, <<TTrue>>, <<TNull>>, <<TWs, TStr(Bar), TWs>>,
      <<TStr(<<"x">> \o KeyName)>> }

\* Bodies that json.loads accepts although they are not JSON texts.
NaNBodies ==
    { <<TNaN>>,
      <<LBrack, TNaN, RBrack>>,
      <<LBrace, TStr(Foo), Colon, TNaN, RBrace>>,
      KeyBody(<<TNaN>>) }

\* Bodies that are text and that json.loads rejects.
MalformedBodies ==
    { <<>>,
      <<LBrace, TWord, RBrace>>,
      <<LBrace, TStr(Foo), Colon>>,
      <<LBrack, TNum(1), Comma, RBrack>>,
      <<LBrace, RBrace, TWs, TNum(1)>>,
      <<TBom, LBrace, RBrace>> }

\* Bodies that are not valid UTF-8.
UndecodableBodies ==
    { <<TBadByte>>,
      <<LBrace, TStr(Foo), Colon, TBadByte, RBrace>> }

Bodies == ObjectBodies \cup ArrayBodies \cup ScalarBodies \cup NaNBodies
          \cup MalformedBodies \cup UndecodableBodies

(***************************************************************************)
(* The requests.  Request 1 carries any of the bodies above; the requests  *)
(* handled around it carry one of two bodies, or are GET requests.         *)
(***************************************************************************)
Reqs == 1..NumReqs

TrafficBodies == { KeyBody(<<TStr(KeyStrAlt(MaxKeyLen))>>), <<TNum(5)>> }

BodiesOf(r) == IF r = 1 THEN Bodies ELSE TrafficBodies

(***************************************************************************)
(* The state: for each request its method and body, the handler's position *)
(* and local variables, and the response; and the server's standard output.*)
(***************************************************************************)

VARIABLES
    method,      \* "GET", "POST", or "none" before the request arrives
    body,        \* the bytes the client sends (POST)
    connected,   \* is the client still connected?
    pc,          \* the line of app.py the handler is about to execute
    body_bytes,  \* local of create_item (line 23)
    body_str,    \* local of create_item (line 24)
    json_body,   \* local of create_item (line 28)
    exc,         \* str(e) of the exception caught at line 40
    response,    \* the response sent, once pc = "done"
    stdout       \* the lines printed, each with the request that printed it

vars == <<method, body, connected, pc, body_bytes, body_str, json_body, exc, response, stdout>>

NoResponse == [status |-> 0, message |-> <<>>, request_payload |-> Absent]

Init ==
    /\ method     = [r \in Reqs |-> "none"]
    /\ body       = [r \in Reqs |-> <<>>]
    /\ connected  = [r \in Reqs |-> TRUE]
    /\ pc         = [r \in Reqs |-> "idle"]
    /\ body_bytes = [r \in Reqs |-> <<>>]
    /\ body_str   = [r \in Reqs |-> <<>>]
    /\ json_body  = [r \in Reqs |-> Absent]
    /\ exc        = [r \in Reqs |-> <<>>]
    /\ response   = [r \in Reqs |-> NoResponse]
    /\ stdout     = <<>>

\* What print(text) by the handler of request r adds to the standard output.
Printed(r, text) == [req |-> r, line |-> text]

\* The handler of request r goes on at line l.
Goto(r, l) == pc' = [pc EXCEPT ![r] = l]

\* An exception with message e is raised inside the try block of request r.
Throw(r, e) == /\ exc' = [exc EXCEPT ![r] = e]
               /\ Goto(r, "L40")

\* A client sends POST /test/ with body b.
ArrivePost(r, b) ==
    /\ pc[r] = "idle"
    /\ method' = [method EXCEPT ![r] = "POST"]
    /\ body' = [body EXCEPT ![r] = b]
    /\ Goto(r, "L23")
    /\ UNCHANGED <<connected, body_bytes, body_str, json_body, exc, response, stdout>>

\* A client sends GET /.
ArriveGet(r) ==
    /\ pc[r] = "idle"
    /\ method' = [method EXCEPT ![r] = "GET"]
    /\ Goto(r, "L50")
    /\ UNCHANGED <<body, connected, body_bytes, body_str, json_body, exc,
                   response, stdout>>

\* Line 23: body_bytes = await request.body()
ReadBody(r) ==
    /\ pc[r] = "L23"
    /\ body_bytes' = [body_bytes EXCEPT ![r] = body[r]]
    /\ Goto(r, "L24")
    /\ UNCHANGED <<method, body, connected, body_str, json_body, exc, response, stdout>>

\* Line 23, the client going away while the body is read: request.body()
\* raises ClientDisconnect, whose str() is empty.
ReadBodyFails(r) ==
    /\ pc[r] = "L23"
    /\ connected' = [connected EXCEPT ![r] = FALSE]
    /\ Throw(r, <<>>)
    /\ UNCHANGED <<method, body, body_bytes, body_str, json_body, response, stdout>>

\* Line 24: body_str = body_bytes.decode('utf-8')
DecodeBody(r) ==
    /\ pc[r] = "L24"
    /\ LET d == Decode(body_bytes[r]) IN
       IF d.ok
       THEN /\ body_str' = [body_str EXCEPT ![r] = d.val]
            /\ Goto(r, "L28")
            /\ UNCHANGED exc
       ELSE /\ Throw(r, d.err)
            /\ UNCHANGED body_str
    /\ UNCHANGED <<method, body, connected, body_bytes, json_body, response, stdout>>

\* LoadsBody as it would be if json_body were a variable of the module,
\* shared by the handlers, and not a local of create_item.
LoadsBodyShared(r) ==
    /\ pc[r] = "L28"
    /\ LET p == Loads(body_str[r]) IN
       IF p.ok
       THEN /\ json_body' = [q \in Reqs |-> p.val]
            /\ stdout' = stdout \o <<Printed(r, TestLine),
                                      Printed(r, DataLine(p.val))>>
            /\ Goto(r, "L33")
            /\ UNCHANGED exc
       ELSE /\ Throw(r, p.err)
            /\ UNCHANGED <<json_body, stdout>>
    /\ UNCHANGED <<method, body, connected, body_bytes, body_str, response>>

\* LoadsBody as it would be without line 30, the print of the payload.
LoadsBodyWithoutDataLine(r) ==
    /\ pc[r] = "L28"
    /\ LET p == Loads(body_str[r]) IN
       IF p.ok
       THEN /\ json_body' = [json_body EXCEPT ![r] = p.val]
            /\ stdout' = Append(stdout, Printed(r, TestLine))
            /\ Goto(r, "L33")
            /\ UNCHANGED exc
       ELSE /\ Throw(r, p.err)
            /\ UNCHANGED <<json_body, stdout>>
    /\ UNCHANGED <<method, body, connected, body_bytes, body_str, response>>

\* Lines 28 to 30:
\*   json_body = json.loads(body_str)
\*   print("test")
\*   print(f"Data received: {json_body}")
LoadsBody(r) ==
    /\ pc[r] = "L28"
    /\ LET p == Loads(body_str[r]) IN
       IF p.ok
       THEN /\ json_body' = [json_body EXCEPT ![r] = p.val]
            /\ stdout' = stdout \o <<Printed(r, TestLine),
                                      Printed(r, DataLine(p.val))>>
            /\ Goto(r, "L33")
            /\ UNCHANGED exc
       ELSE /\ Throw(r, p.err)
            /\ UNCHANGED <<json_body, stdout>>
    /\ UNCHANGED <<method, body, connected, body_bytes, body_str, response>>

\* Lines 33 to 36:
\*   if 'userSshKey' in json_body:
\*       print(f"userSshKey found: {json_body['userSshKey'][:10]}...")
\*   else:
\*       print("Warning: userSshKey field is missing in the payload")
InspectKey(r) ==
    /\ pc[r] = "L33"
    /\ LET c  == Contains(KeyName, json_body[r])
           g  == IF c.ok /\ c.val THEN GetItem(json_body[r], KeyName) ELSE c
           sl == IF g.ok /\ c.val THEN Slice(g.val, SliceLen) ELSE g
       IN  IF ~sl.ok
           THEN /\ Throw(r, sl.err)
                /\ UNCHANGED stdout
           ELSE /\ stdout' = Append(stdout,
                                    Printed(r, IF c.val THEN FoundLine(sl.val)
                                                        ELSE MissingLine))
                /\ Goto(r, "L39")
                /\ UNCHANGED exc
    /\ UNCHANGED <<method, body, connected, body_bytes, body_str, json_body,
                   response>>

\* What the route makes of the dict a handler returns: the JSON response
\* with the route's status code, or the server error of a value that has no
\* JSON rendering (a float that is not a number).
Rendered(status, message, payload) ==
    IF HasNaN(payload)
    THEN [status |-> 500, message |-> <<"Internal Server Error">>,
          request_payload |-> Absent]
    ELSE [status |-> status, message |-> message, request_payload |-> payload]

\* Line 39: return {"message": "Got it", "request_payload": json_body},
\* under the route's status_code=201 (line 14).
Return(r) ==
    /\ pc[r] = "L39"
    /\ response' = [response EXCEPT ![r] = Rendered(201, <<"Got it">>, json_body[r])]
    /\ Goto(r, "done")
    /\ UNCHANGED <<method, body, connected, body_bytes, body_str, json_body, exc, stdout>>

\* Lines 40 to 45: except Exception as e: return JSONResponse(status_code=400,
\* content={"message": f"Invalid JSON: {str(e)}"})
Except(r) ==
    /\ pc[r] = "L40"
    /\ response' = [response EXCEPT ![r] =
           [status |-> 400, message |-> <<"Invalid JSON: ">> \o exc[r],
            request_payload |-> Absent]]
    /\ Goto(r, "done")
    /\ UNCHANGED <<method, body, connected, body_bytes, body_str, json_body, exc, stdout>>

\* ReadRoot as it would be if read_root logged the request.
ReadRootLogging(r) ==
    /\ pc[r] = "L50"
    /\ response' = [response EXCEPT ![r] =
           Rendered(200, <<"Welcome to the Example API!">>, Absent)]
    /\ stdout' = Append(stdout, Printed(r, <<"GET /">>))
    /\ Goto(r, "done")
    /\ UNCHANGED <<method, body, connected, body_bytes, body_str, json_body, exc>>

\* Lines 48 to 50: read_root returns {"message": "Welcome to the Example API!"}
ReadRoot(r) ==
    /\ pc[r] = "L50"
    /\ response' = [response EXCEPT ![r] =
           Rendered(200, <<"Welcome to the Example API!">>, Absent)]
    /\ Goto(r, "done")
    /\ UNCHANGED <<method, body, connected, body_bytes, body_str, json_body, exc, stdout>>

Next ==
    \E r \in Reqs :
        \/ \E b \in BodiesOf(r) : ArrivePost(r, b)
        \/ ArriveGet(r)
        \/ ReadBody(r)
        \/ ReadBodyFails(r)
        \/ DecodeBody(r)
        \/ LoadsBody(r)
        \/ InspectKey(r)
        \/ Return(r)
        \/ Except(r)
        \/ ReadRoot(r)

Spec == Init /\ [][Next]_vars

(***************************************************************************)
(* Vocabulary of the properties.                                           *)
(***************************************************************************)
Done(r) == pc[r] = "done"
Post(r) == method[r] = "POST"

\* Request r is a POST whose body the handler has read, and it is answered.
Received(r) == Done(r) /\ Post(r) /\ connected[r]

\* The body b decodes as UTF-8 and json.loads accepts the text.
Parses(b) == Decode(b).ok /\ Loads(Decode(b).val).ok

\* The value json.loads yields for a body that parses.
Parsed(b) == Loads(Decode(b).val).val

\* The body b is a JSON text: it parses without the literal NaN, which
\* json.loads accepts and the JSON grammar does not have.
ValidJson(b) == Parses(b) /\ ~HasNaN(Parsed(b))

\* The texts of the lines request r has printed, in order.
LinesOf(r) ==
    LET mine == SelectSeq(stdout, LAMBDA e : e.req = r)
    IN  [i \in 1..Len(mine) |-> mine[i].line]

IsDataLine(l)    == Head(l) = "Data received: "
IsFoundLine(l)   == Head(l) = "userSshKey found: "
IsMissingLine(l) == l = <<"Warning: userSshKey field is missing in the payload">>

\* The success response that echoes the value p.
Echo(p) == [status |-> 201, message |-> <<"Got it">>, request_payload |-> p]

\* p is an object with the key userSshKey.
HasKey(p)    == p.t = "dict" /\ \E i \in 1..Len(p.v) : p.v[i][1] = KeyName
\* The value of the key userSshKey of such an object.
KeyValue(p)  == p.v[CHOOSE i \in 1..Len(p.v) : p.v[i][1] = KeyName][2]
HasStrKey(p) == HasKey(p) /\ KeyValue(p).t = "str"

\* The first 10 characters of s, all of s when it is shorter.
First10(s) == SubSeq(s, 1, IF Len(s) < 10 THEN Len(s) ELSE 10)

(***************************************************************************)
(* C1: every POST /test/ whose body is a JSON text with parsed value P is  *)
(* answered 201 with the body {"message": "Got it", "request_payload": P}. *)
(* The code answers 400 to a number, a boolean, null, a list or a string   *)
(* that contains "userSshKey", and an object whose userSshKey cannot be    *)
(* sliced.                                                                 *)
(***************************************************************************)
C1_EchoesEveryJsonValue ==
    \A r \in Reqs :
        Received(r) /\ ValidJson(body[r])
            => response[r] = Echo(Parsed(body[r]))

(***************************************************************************)
(* C2: every POST /test/ whose body is not valid UTF-8, or is text but no  *)
(* JSON text, is answered 400 with a message that begins "Invalid JSON: ". *)
(* The code accepts the literal NaN and returns the value it stands for.   *)
(***************************************************************************)
C2_RejectsEveryNonJsonBody ==
    \A r \in Reqs :
        Received(r) /\ ~ValidJson(body[r])
            => /\ response[r].status = 400
               /\ response[r].message # <<>>
               /\ Head(response[r].message) = "Invalid JSON: "

(***************************************************************************)
(* C3: POST /test/ answers 400 only when the UTF-8 decoding or the JSON    *)
(* parsing of the body fails.  The code answers 400 to every exception of  *)
(* the handler: a failed read of the body, a TypeError of the userSshKey   *)
(* inspection.                                                             *)
(***************************************************************************)
C3_BadRequestOnlyOnDecodeOrParseFailure ==
    \A r \in Reqs :
        Received(r) /\ response[r].status = 400 => ~Parses(body[r])

(***************************************************************************)
(* C4: for a JSON object with the key userSshKey and a string value S, the *)
(* handler prints a line that holds the first 10 characters of S (all of S *)
(* when it is shorter) followed at once by "...", and answers 201 with the *)
(* whole object, S untruncated.                                            *)
(***************************************************************************)
C4_KeyPrefixLoggedAndObjectEchoed ==
    \A r \in Reqs :
        Received(r) /\ ValidJson(body[r]) /\ HasStrKey(Parsed(body[r]))
            => LET p == Parsed(body[r])
                   s == KeyValue(p).v
               IN  /\ \E i \in 1..Len(stdout) :
                          /\ stdout[i].req = r
                          /\ stdout[i].line = <<"userSshKey found: ">>
                                               \o First10(s) \o <<"...">>
                   /\ response[r] = Echo(p)
                   /\ KeyValue(response[r].request_payload) = JStr(s)

\* A request with a userSshKey string of more than 10 characters is answered.
C4_Witness ==
    \E r \in Reqs :
        /\ Received(r) /\ ValidJson(body[r]) /\ HasStrKey(Parsed(body[r]))
        /\ Len(KeyValue(Parsed(body[r])).v) > 10
        /\ response[r].status = 201

(***************************************************************************)
(* C5: for a JSON object without the key userSshKey, the handler prints    *)
(* the line that says the field is missing, prints no "userSshKey found"   *)
(* line, and answers 201 with the object unchanged.                        *)
(***************************************************************************)
C5_MissingKeyIsNoError ==
    \A r \in Reqs :
        Received(r) /\ ValidJson(body[r])
        /\ Parsed(body[r]).t = "dict" /\ ~HasKey(Parsed(body[r]))
            => /\ \E i \in 1..Len(LinesOf(r)) : IsMissingLine(LinesOf(r)[i])
               /\ \A i \in 1..Len(LinesOf(r)) : ~IsFoundLine(LinesOf(r)[i])
               /\ response[r] = Echo(Parsed(body[r]))

\* A request with a non-empty object without userSshKey is answered.
C5_Witness ==
    \E r \in Reqs :
        /\ Received(r) /\ ValidJson(body[r])
        /\ Parsed(body[r]).t = "dict" /\ ~HasKey(Parsed(body[r]))
        /\ Parsed(body[r]).v # <<>>
        /\ response[r].status = 201

(***************************************************************************)
(* C6: for a JSON value that is no object, the handler skips the           *)
(* userSshKey lookup: it prints neither the "userSshKey found" line nor    *)
(* the "missing" line, and it answers 201.  The code runs the lookup on    *)
(* every value: a list or string prints one of the lines or raises, and a  *)
(* number, a boolean and null raise and are answered 400.                  *)
(***************************************************************************)
C6_NonObjectSkipsLookup ==
    \A r \in Reqs :
        Received(r) /\ ValidJson(body[r]) /\ Parsed(body[r]).t # "dict"
            => /\ \A i \in 1..Len(LinesOf(r)) :
                      ~IsFoundLine(LinesOf(r)[i]) /\ ~IsMissingLine(LinesOf(r)[i])
               /\ response[r].status = 201

(***************************************************************************)
(* C7: whatever requests came before or are in progress, GET / is answered *)
(* 200 with {"message": "Welcome to the Example API!"} and prints nothing. *)
(***************************************************************************)
C7_RootAlwaysWelcomes ==
    \A r \in Reqs :
        Done(r) /\ method[r] = "GET"
            => /\ response[r] = [status |-> 200,
                                 message |-> <<"Welcome to the Example API!">>,
                                 request_payload |-> Absent]
               /\ LinesOf(r) = <<>>

\* GET / is answered after a POST that failed and printed.
C7_Witness ==
    \E g, r \in Reqs :
        /\ Done(g) /\ method[g] = "GET"
        /\ Done(r) /\ Post(r) /\ response[r].status = 400
        /\ LinesOf(r) # <<>>

\* str(e) of the exception the handler raises on the body b when it runs
\* from line 24 to line 39 without interruption, <<"">> when it raises none.
Raised(b) ==
    LET d == Decode(b) IN
    IF ~d.ok THEN d.err
    ELSE LET p == Loads(d.val) IN
         IF ~p.ok THEN p.err
         ELSE LET c == Contains(KeyName, p.val) IN
              IF ~c.ok THEN c.err
              ELSE IF ~c.val THEN <<"">>
              ELSE LET g == GetItem(p.val, KeyName) IN
                   IF ~g.ok THEN g.err
                   ELSE LET sl == Slice(g.val, SliceLen) IN
                        IF ~sl.ok THEN sl.err ELSE <<"">>

\* The response to body b of a handler that runs alone.
Alone(b) ==
    IF Raised(b) = <<"">>
    THEN Rendered(201, <<"Got it">>, Parsed(b))
    ELSE [status |-> 400, message |-> <<"Invalid JSON: ">> \o Raised(b),
          request_payload |-> Absent]

(***************************************************************************)
(* C8: under every interleaving of the handlers, the response to a POST is *)
(* the one the handler gives to the same body when it runs alone.          *)
(***************************************************************************)
C8_RequestsAreIndependent ==
    \A r \in Reqs :
        Received(r) => response[r] = Alone(body[r])

\* Two POST requests with different bodies are answered, and the lines of
\* one were printed between the lines of the other.
C8_Witness ==
    \E a, b \in Reqs :
        /\ a # b /\ Received(a) /\ Received(b) /\ body[a] # body[b]
        /\ response[a].status = 201 /\ response[b].status = 201
        /\ \E i, j, k \in 1..Len(stdout) :
               /\ i < j /\ j < k
               /\ stdout[i].req = a /\ stdout[j].req = b /\ stdout[k].req = a

(***************************************************************************)
(* C9: a POST whose body decodes and parses prints a line with the whole   *)
(* parsed payload, whatever the response status, and prints it before its  *)
(* "userSshKey found" or "missing" line; a POST whose body does not decode *)
(* or parse prints neither kind of line.                                   *)
(***************************************************************************)
C9_PayloadLineComesFirst ==
    \A r \in Reqs :
        LET ls == LinesOf(r) IN
        /\ Received(r) /\ Parses(body[r])
               => \E i \in 1..Len(ls) :
                      ls[i] = <<"Data received: ">> \o Format(Parsed(body[r]))
        /\ \A j \in 1..Len(ls) :
               IsFoundLine(ls[j]) \/ IsMissingLine(ls[j])
                   => \E i \in 1..(j - 1) : IsDataLine(ls[i])
        /\ Done(r) /\ Post(r) /\ ~(connected[r] /\ Parses(body[r]))
               => \A i \in 1..Len(ls) :
                      ~IsDataLine(ls[i]) /\ ~IsFoundLine(ls[i])
                      /\ ~IsMissingLine(ls[i])

\* A POST answered 400 has printed its payload, and another has printed its
\* payload and then a userSshKey line.
C9_Witness ==
    /\ \E r \in Reqs :
           /\ Received(r) /\ Parses(body[r]) /\ response[r].status = 400
           /\ \E i \in 1..Len(LinesOf(r)) : IsDataLine(LinesOf(r)[i])
    /\ \E r \in Reqs :
           /\ Received(r) /\ response[r].status = 201
           /\ \E i \in 1..Len(LinesOf(r)) : IsFoundLine(LinesOf(r)[i])

\* The objects p and q differ at most in the userSshKey string after its
\* 10th character.
SameUpToKeyTail(p, q) ==
    /\ p.t = "dict" /\ q.t = "dict" /\ Len(p.v) = Len(q.v)
    /\ HasStrKey(p) /\ HasStrKey(q)
    /\ \A i \in 1..Len(p.v) :
           /\ p.v[i][1] = q.v[i][1]
           /\ IF p.v[i][1] = KeyName
              THEN /\ Len(p.v[i][2].v) >= 10 /\ Len(q.v[i][2].v) >= 10
                   /\ First10(p.v[i][2].v) = First10(q.v[i][2].v)
              ELSE p.v[i][2] = q.v[i][2]

(***************************************************************************)
(* C10: the log shows at most the first 10 characters of userSshKey: two   *)
(* objects that differ only in the characters of the userSshKey string     *)
(* after the 10th make the handler print the same lines.  The code prints  *)
(* the whole payload, the key with it, in the "Data received" line.        *)
(***************************************************************************)
C10_LogHidesKeyTail ==
    \A a, b \in Reqs :
        /\ Received(a) /\ ValidJson(body[a])
        /\ Received(b) /\ ValidJson(body[b])
        /\ SameUpToKeyTail(Parsed(body[a]), Parsed(body[b]))
        => LinesOf(a) = LinesOf(b)

=============================================================================
